---- MODULE Spec2Model ----
(***************************************************************************)
(* A model of the synthetic e-commerce data pipeline:                      *)
(*   generate_data.py    - the generator (users, products, orders,         *)
(*                         order_items, payments, then CSV export)         *)
(*   ingest_to_sqlite.py - the loader (drop, create, insert, commit)       *)
(*                                                                         *)
(* Money is kept in integers.  A rounded amount (round(x, 2)) is a number  *)
(* of cents; an unrounded sample of random.uniform is a number of mills    *)
(* (tenths of a cent), and Round2 takes mills to cents.  Dates are day     *)
(* numbers, day 0 being "two years ago" and day Today being "today".       *)
(*                                                                         *)
(* Every random draw of the generator is modelled by its quantile          *)
(* f \in 0..FracDen: the draw returns the value that lies f/FracDen of the *)
(* way through its range, so both ends of every range are always drawn.    *)
(*                                                                         *)
(* No value of this model is NULL/NaN except an order total that the       *)
(* back-fill finds no accumulated sum for; NOT NULL constraints are        *)
(* therefore not part of the modelled schema.  The name columns            *)
(* (full_name, product_name), which carry no other constraint, are left    *)
(* out of the rows.                                                        *)
(***************************************************************************)
EXTENDS Integers, Sequences, FiniteSets, TLC

\* ------------------------------------------------------------------ bounds
\* The largest value of --rows explored (0 is rejected by the generator).
MaxRows == 1
\* Resolution of a random draw: quantiles 0/FracDen .. FracDen/FracDen.
FracDen == 1
\* Floor of the user count (the source uses 50), scaled down.
MinUsers == 1
\* Floor of the product count (the source uses 40), scaled down.
MinProducts == 1
\* Largest number of items per order (the source uses 5), scaled down.
MaxItems == 2
\* Number of digits of a phone number (faker's msisdn has 13), scaled down.
PhoneDigits == 2
\* Number of hand edits of the data directory between ingestion runs.
MaxEdits == 2

\* ------------------------------------------------------- program constants
\* "-2y": the signup dates start two years (730 days) before today.
Today == 730
\* random.randint(1, 5) for the quantity of an item.
MaxQuantity == 5
\* The placeholder total 0.0 an order is created with.
Placeholder == 0
\* The floor max(amount_paid, 0.01), in cents.
MinPaid == 1
\* What pandas leaves in total_amount when the totals hold no sum for an order.
NaN == 0 - 1

CATEGORIES == <<"electronics", "fashion", "home", "beauty", "books", "sports">>
ORDER_STATUSES == <<"pending", "completed", "cancelled">>
PAYMENT_METHODS == <<"credit_card", "debit_card", "upi", "net_banking">>
PAYMENT_STATUSES == <<"successful", "failed", "pending">>

\* Cumulative weights, in hundredths, of the two weighted draws.
ORDER_STATUS_CUM == <<20, 90, 100>>
PAYMENT_STATUS_CUM == <<75, 90, 100>>

Tables == {"users", "products", "orders", "order_items", "payments"}

\* ----------------------------------------------------------------- helpers
Max(a, b) == IF a >= b THEN a ELSE b

Range(s) == {s[i] : i \in DOMAIN s}

Quant == 0..FracDen

\* The value f/FracDen of the way from a to b (a <= b), rounded down.
Lerp(a, b, f) == a + ((b - a) * f) \div FracDen

\* random.uniform(a, b) on mills: a + (b - a) * random().
Uniform(a, b, f) == Lerp(a, b, f)

\* random.randint(a, b).
RandInt(a, b, f) == Lerp(a, b, f)

\* random.choice(seq) and DataFrame.sample(1): a uniformly drawn element.
Choice(seq, f) == seq[Lerp(1, Len(seq), f)]

\* random.choices(seq, weights)[0]: bisect of the cumulative weights at
\* random() * total, capped at the last index.
Choices(seq, cum, f) ==
    LET hit == {i \in 1..Len(seq) : f * cum[Len(cum)] < cum[i] * FracDen}
    IN  IF hit = {} THEN seq[Len(seq)]
        ELSE seq[CHOOSE i \in hit : \A j \in hit : i <= j]

\* faker.date_between(start_date, end_date): a day of [start, end].
DateBetween(start, end, f) == Lerp(start, end, f)

\* round(x, 2): mills to cents, ties to the even cent.
Round2(m) ==
    LET q == m \div 10
        r == m % 10
    IN  IF r > 5 \/ (r = 5 /\ q % 2 = 1) THEN q + 1 ELSE q

\* A rounded amount (cents) as the float it is, in mills.
Mills(c) == c * 10

\* The number a sequence of decimal digits denotes (leading zeros drop out).
RECURSIVE DigitsValue(_)
DigitsValue(d) ==
    IF d = <<>> THEN 0
    ELSE DigitsValue(SubSeq(d, 1, Len(d) - 1)) * 10 + d[Len(d)]

\* The n decimal digits of v, most significant first.
RECURSIVE ToDigits(_, _)
ToDigits(v, n) ==
    IF n = 0 THEN <<>>
    ELSE Append(ToDigits(v \div 10, n - 1), v % 10)

\* 10^n.
RECURSIVE Pow10(_)
Pow10(n) == IF n = 0 THEN 1 ELSE 10 * Pow10(n - 1)

\* Integer sum of f[x] over the finite set S.
RECURSIVE SumOver(_, _)
SumOver(S, f) ==
    IF S = {} THEN 0
    ELSE LET x == CHOOSE y \in S : TRUE
         IN  f[x] + SumOver(S \ {x}, f)

\* ------------------------------------------------------------------- state
VARIABLES
    \* generate_data.py
    rows,          \* args.rows
    gpc,           \* position of the generator's main()
    users,         \* users_df
    products,      \* products_df
    orders,        \* orders_df
    items,         \* the items list / order_items_df
    order_totals,  \* the defaultdict(float) of generate_order_items
    selected,      \* selected_products still to be turned into items
    oidx,          \* orders already handled by the running per-order loop
    payments,      \* payments_df
    \* the data directory
    dataDir,       \* whether data/ exists
    present,       \* the tables whose CSV file exists in data/
    files,         \* the rows of each CSV file
    edits,         \* hand edits made to the data directory so far
    \* ingest_to_sqlite.py
    lpc,           \* "idle", "run", "finally" or "exit"
    lstep,         \* index into MainSteps of the running step
    lsub,          \* index of the table the running step is at
    lrow,          \* 0 before the CSV is read, then the next record to insert
    conn,          \* "closed" or "open"
    fkOn,          \* PRAGMA foreign_keys of the connection
    inTxn,         \* whether the connection has an open transaction
    work,          \* the database as the connection sees it
    store,         \* the committed database (ecommerce.db)
    lerr,          \* what the running (or last) run raised
    failedTable,   \* the table whose insert raised, or "none"
    opened,        \* whether the running (or last) run opened a connection
    prev           \* the data directory, store and outcome at the last exit

genVars == <<rows, gpc, users, products, orders, items, order_totals,
             selected, oidx, payments>>
diskVars == <<dataDir, present, files, edits>>
loadVars == <<lpc, lstep, lsub, lrow, conn, fkOn, inTxn, work, store, lerr,
              failedTable, opened, prev>>
vars == <<genVars, diskVars, loadVars>>

\* ----------------------------------------------------- generate_data.py
\* Mutant of GenStages: payments are generated before the totals are
\* back-filled.
GenStagesPaymentsFirst ==
    <<"users", "products", "orders", "items", "payments", "totals", "export">>

\* The stages of main(), in the order main() runs them.
GenStages ==
    <<"users", "products", "orders", "items", "totals", "payments", "export">>

StageAfter(stage) ==
    LET i == CHOOSE k \in 1..Len(GenStages) : GenStages[k] = stage
    IN  IF i = Len(GenStages) THEN "done" ELSE GenStages[i + 1]

\* num_users = max(int(num_orders * 0.6), 50)
NumUsers(n) == Max((n * 6) \div 10, MinUsers)

\* num_products = max(int(num_orders * 0.5), 40)
NumProducts(n) == Max((n * 5) \div 10, MinProducts)

\* faker.unique.email(): an address, opaque but for its identity.
EmailOf(f) == f

\* faker.unique.msisdn(): a string of PhoneDigits decimal digits.
PhoneOf(f) == ToDigits(Lerp(0, Pow10(PhoneDigits) - 1, f), PhoneDigits)

\* signup_date = faker.date_between(start_date="-2y", end_date="today")
SignupDate(f) == DateBetween(0, Today, f)

\* base_price = round(random.uniform(5.0, 500.0), 2)
BasePrice(f) == Round2(Uniform(5000, 500000, f))

\* stock_quantity = random.randint(0, 500)
StockQuantity(f) == RandInt(0, 500, f)

\* Mutant of OrderDate: the date is drawn from the last two years, whatever
\* the user's signup date.
OrderDateAnyTime(signup, f) == DateBetween(0, Today, f)

\* order_date = faker.date_between(start_date=user["signup_date"], end_date="today")
OrderDate(signup, f) == DateBetween(signup, Today, f)

\* unit_price = round(random.uniform(price * 0.9, price * 1.1), 2)
UnitPrice(price, f) == Round2(Uniform(price * 9, price * 11, f))

\* line_total = round(quantity * unit_price, 2)
LineTotal(quantity, unit_price) == Round2(Mills(quantity * unit_price))

\* Mutant of Accumulate: the line total is assigned, not added.
AccumulateOverwrite(totals, order_id, line_total) ==
    [k \in DOMAIN totals \cup {order_id} |->
        IF k = order_id THEN line_total ELSE totals[k]]

\* order_totals[order["order_id"]] += line_total
Accumulate(totals, order_id, line_total) ==
    [k \in DOMAIN totals \cup {order_id} |->
        IF k = order_id
        THEN (IF k \in DOMAIN totals THEN totals[k] ELSE 0) + line_total
        ELSE totals[k]]

\* orders_df["total_amount"] = order_totals.round(2), aligned on order_id.
BackFill(ords, totals) ==
    [i \in DOMAIN ords |->
        [ords[i] EXCEPT !.total_amount =
            IF ords[i].order_id \in DOMAIN totals
            THEN Round2(Mills(totals[ords[i].order_id]))
            ELSE NaN]]

\* payment_date = faker.date_between(start_date=order.order_date, end_date="today")
PaymentDate(order_date, f) == DateBetween(order_date, Today, f)

\* Mutant of AmountPaid: the partial amount is drawn from 0.0 upwards.
AmountPaidFromZero(status, total, f) ==
    IF status = "successful"
    THEN Round2(Mills(total))
    ELSE Round2(Uniform(0, Max(Mills(total), 1000), f))

\* amount_paid before the floor: the order's total when successful, else
\* round(random.uniform(1.0, max(order.total_amount, 1.0)), 2)
AmountPaid(status, total, f) ==
    IF status = "successful"
    THEN Round2(Mills(total))
    ELSE Round2(Uniform(1000, Max(Mills(total), 1000), f))

\* "amount_paid": max(amount_paid, 0.01)
FlooredAmount(amount) == Max(amount, MinPaid)

\* main() up to the first generator: the --rows check and ensure_data_dir.
GenStart ==
    /\ gpc = "start"
    /\ lpc = "idle"
    /\ IF rows <= 0
       THEN /\ gpc' = "error"
            /\ UNCHANGED dataDir
       ELSE /\ gpc' = GenStages[1]
            /\ dataDir' = TRUE
    /\ UNCHANGED <<rows, users, products, orders, items, order_totals,
                   selected, oidx, payments, present, files, edits, loadVars>>

\* One iteration of generate_users; faker.unique raises when every value it
\* can draw is already taken.
GenUser ==
    /\ gpc = "users"
    /\ LET freeEmail == {f \in Quant : \A i \in DOMAIN users :
                            users[i].email # EmailOf(f)}
           freePhone == {f \in Quant : \A i \in DOMAIN users :
                            users[i].phone_number # PhoneOf(f)}
       IN  IF freeEmail = {} \/ freePhone = {}
           THEN /\ gpc' = "error"
                /\ UNCHANGED users
           ELSE \E fe \in freeEmail, fp \in freePhone, fs \in Quant :
                /\ users' = Append(users,
                       [user_id |-> Len(users) + 1,
                        email |-> EmailOf(fe),
                        signup_date |-> SignupDate(fs),
                        phone_number |-> PhoneOf(fp)])
                /\ gpc' = IF Len(users) + 1 = NumUsers(rows)
                          THEN StageAfter("users") ELSE "users"
    /\ UNCHANGED <<rows, products, orders, items, order_totals, selected,
                   oidx, payments, diskVars, loadVars>>

\* One iteration of generate_products.
GenProduct ==
    /\ gpc = "products"
    /\ \E fc \in Quant, fp \in Quant, fs \in Quant :
        products' = Append(products,
            [product_id |-> Len(products) + 1,
             category |-> Choice(CATEGORIES, fc),
             price |-> BasePrice(fp),
             stock_quantity |-> StockQuantity(fs)])
    /\ gpc' = IF Len(products) + 1 = NumProducts(rows)
              THEN StageAfter("products") ELSE "products"
    /\ UNCHANGED <<rows, users, orders, items, order_totals, selected, oidx,
                   payments, diskVars, loadVars>>

\* One iteration of generate_orders.
GenOrder ==
    /\ gpc = "orders"
    /\ \E fu \in Quant, fd \in Quant, fs \in Quant :
        LET user == Choice(users, fu)
        IN  orders' = Append(orders,
                [order_id |-> Len(orders) + 1,
                 user_id |-> user.user_id,
                 order_date |-> OrderDate(user.signup_date, fd),
                 total_amount |-> Placeholder,
                 order_status |-> Choices(ORDER_STATUSES, ORDER_STATUS_CUM, fs)])
    /\ gpc' = IF Len(orders) + 1 = rows THEN StageAfter("orders") ELSE "orders"
    /\ UNCHANGED <<rows, users, products, items, order_totals, selected, oidx,
                   payments, diskVars, loadVars>>

\* The head of generate_order_items' outer loop: num_items and the sample of
\* products (with replacement) for the next order.
SampleProducts ==
    /\ gpc = "items"
    /\ oidx < Len(orders)
    /\ \E fn \in Quant :
        LET num_items == RandInt(1, MaxItems, fn)
        IN  \E fs \in [1..num_items -> Quant] :
                selected' = [k \in 1..num_items |-> Choice(products, fs[k])]
    /\ gpc' = "item"
    /\ UNCHANGED <<rows, users, products, orders, items, order_totals, oidx,
                   payments, diskVars, loadVars>>

\* One iteration of the inner loop: an item of the order, added to its total.
GenItem ==
    /\ gpc = "item"
    /\ \E fq \in Quant, fu \in Quant :
        LET order == orders[oidx + 1]
            product == Head(selected)
            quantity == RandInt(1, MaxQuantity, fq)
            unit_price == UnitPrice(product.price, fu)
            line_total == LineTotal(quantity, unit_price)
        IN  /\ items' = Append(items,
                   [item_id |-> Len(items) + 1,
                    order_id |-> order.order_id,
                    product_id |-> product.product_id,
                    quantity |-> quantity,
                    unit_price |-> unit_price,
                    line_total |-> line_total])
            /\ order_totals' = Accumulate(order_totals, order.order_id, line_total)
    /\ selected' = Tail(selected)
    /\ IF Len(selected) > 1
       THEN /\ gpc' = "item"
            /\ oidx' = oidx
       ELSE IF oidx + 1 < Len(orders)
       THEN /\ gpc' = "items"
            /\ oidx' = oidx + 1
       ELSE /\ gpc' = StageAfter("items")
            /\ oidx' = 0
    /\ UNCHANGED <<rows, users, products, orders, payments, diskVars, loadVars>>

\* "Updating order totals...": the back-fill of total_amount.
UpdateTotals ==
    /\ gpc = "totals"
    /\ orders' = BackFill(orders, order_totals)
    /\ gpc' = StageAfter("totals")
    /\ UNCHANGED <<rows, users, products, items, order_totals, selected, oidx,
                   payments, diskVars, loadVars>>

\* One iteration of generate_payments.
GenPayment ==
    /\ gpc = "payments"
    /\ oidx < Len(orders)
    /\ \E fs \in Quant, fm \in Quant, fd \in Quant, fa \in Quant :
        LET order == orders[oidx + 1]
            payment_status == Choices(PAYMENT_STATUSES, PAYMENT_STATUS_CUM, fs)
            amount_paid == AmountPaid(payment_status, order.total_amount, fa)
        IN  payments' = Append(payments,
                [payment_id |-> order.order_id,
                 order_id |-> order.order_id,
                 payment_method |-> Choice(PAYMENT_METHODS, fm),
                 payment_status |-> payment_status,
                 payment_date |-> PaymentDate(order.order_date, fd),
                 amount_paid |-> FlooredAmount(amount_paid)])
    /\ IF oidx + 1 < Len(orders)
       THEN /\ gpc' = "payments"
            /\ oidx' = oidx + 1
       ELSE /\ gpc' = StageAfter("payments")
            /\ oidx' = 0
    /\ UNCHANGED <<rows, users, products, orders, items, order_totals,
                   selected, diskVars, loadVars>>

\* "Exporting CSV files...": the five to_csv calls.
ExportCsv ==
    /\ gpc = "export"
    /\ files' = [t \in Tables |->
                    CASE t = "users" -> users
                      [] t = "products" -> products
                      [] t = "orders" -> orders
                      [] t = "order_items" -> items
                      [] t = "payments" -> payments]
    /\ present' = Tables
    /\ gpc' = StageAfter("export")
    /\ UNCHANGED <<rows, users, products, orders, items, order_totals,
                   selected, oidx, payments, dataDir, edits, loadVars>>

GenNext ==
    \/ GenStart
    \/ GenUser
    \/ GenProduct
    \/ GenOrder
    \/ SampleProducts
    \/ GenItem
    \/ UpdateTotals
    \/ GenPayment
    \/ ExportCsv


\* ---------------------------------------------------- ingest_to_sqlite.py
\* Mutant of DROP_ORDER: the tables are dropped parents first.
DropOrderParentsFirst ==
    <<"users", "products", "orders", "order_items", "payments">>

DROP_ORDER == <<"payments", "order_items", "orders", "products", "users">>

\* The order create_tables runs the CREATE statements in.
CREATE_ORDER == <<"users", "products", "orders", "order_items", "payments">>

\* Mutant of LOAD_SEQUENCE: orders are loaded before the users they name.
LoadSequenceOrdersFirst ==
    <<"orders", "users", "products", "order_items", "payments">>

\* The table names of LOAD_SEQUENCE, in order.
LOAD_SEQUENCE == <<"users", "products", "orders", "order_items", "payments">>

\* Mutant of MainSteps: the data directory is checked after the tables are
\* dropped.
MainStepsConnectFirst ==
    <<"get_connection", "drop_tables", "ensure_data_dir", "create_tables",
      "insert_data">>

\* The statements of main(), in order.
MainSteps ==
    <<"ensure_data_dir", "get_connection", "drop_tables", "create_tables",
      "insert_data">>

\* Mutant of ForeignKeysOn: the pragma is not issued.
ForeignKeysOff == FALSE

\* conn.execute("PRAGMA foreign_keys = ON;")
ForeignKeysOn == TRUE

\* CREATE_STATEMENTS: the PRIMARY KEY column of each table.
PrimaryKey ==
    [t \in Tables |->
        CASE t = "users" -> "user_id"
          [] t = "products" -> "product_id"
          [] t = "orders" -> "order_id"
          [] t = "order_items" -> "item_id"
          [] t = "payments" -> "payment_id"]

\* CREATE_STATEMENTS: the UNIQUE columns of each table.
UniqueColumns ==
    [t \in Tables |->
        IF t = "users" THEN {"email", "phone_number"} ELSE {}]

\* CREATE_STATEMENTS: the FOREIGN KEY clauses, <<column, table, column>>.
ForeignKeys ==
    [t \in Tables |->
        CASE t = "orders" -> {<<"user_id", "users", "user_id">>}
          [] t = "order_items" -> {<<"order_id", "orders", "order_id">>,
                                   <<"product_id", "products", "product_id">>}
          [] t = "payments" -> {<<"order_id", "orders", "order_id">>}
          [] OTHER -> {}]

\* A CHECK(x > 0) on a REAL column: NULL (a NaN of the CSV) passes.
CheckPositive(x) == x = NaN \/ x > 0

\* CREATE_STATEMENTS: the CHECK constraints of each table, on row r.
Checks(t, r) ==
    CASE t = "users" -> TRUE
      [] t = "products" ->
            /\ r.category \in Range(CATEGORIES)
            /\ r.price > 0
            /\ r.stock_quantity >= 0
      [] t = "orders" ->
            /\ CheckPositive(r.total_amount)
            /\ r.order_status \in {"pending", "completed", "cancelled"}
      [] t = "order_items" ->
            /\ r.quantity > 0
            /\ r.unit_price > 0
            /\ r.line_total >= 0
      [] t = "payments" ->
            /\ r.payment_method \in
                  {"credit_card", "debit_card", "upi", "net_banking"}
            /\ r.payment_status \in {"successful", "failed", "pending"}
            /\ r.amount_paid > 0

\* A database: the tables that exist and the rows of each.
EmptyDb == [exists |-> {}, rows |-> [t \in Tables |-> <<>>]]

\* Whether the foreign key fk of a child row has its parent row in db.
ParentPresent(db, r, fk) ==
    \E i \in DOMAIN db.rows[fk[2]] : db.rows[fk[2]][i][fk[3]] = r[fk[1]]

\* INSERT INTO t of row r is accepted by the engine: the table exists, and
\* the row keeps the primary key, the UNIQUE columns, the CHECKs and (with
\* foreign keys on) the FOREIGN KEYs.
RowAccepted(db, fk, t, r) ==
    /\ t \in db.exists
    /\ \A i \in DOMAIN db.rows[t] :
          /\ db.rows[t][i][PrimaryKey[t]] # r[PrimaryKey[t]]
          /\ \A c \in UniqueColumns[t] : db.rows[t][i][c] # r[c]
    /\ Checks(t, r)
    /\ fk => \A k \in ForeignKeys[t] :
                /\ k[2] \in db.exists
                /\ ParentPresent(db, r, k)

InsertRowInto(db, t, r) ==
    [db EXCEPT !.rows[t] = Append(@, r)]

\* DROP TABLE IF EXISTS t deletes the rows of t first; with foreign keys on
\* it fails when a row of another table references one of them.
DropRefused(db, fk, t) ==
    /\ fk
    /\ t \in db.exists
    /\ \E c \in db.exists \ {t} : \E k \in ForeignKeys[c] :
          /\ k[2] = t
          /\ \E i \in DOMAIN db.rows[c] : ParentPresent(db, db.rows[c][i], k)

DropTableFrom(db, t) ==
    [exists |-> db.exists \ {t}, rows |-> [db.rows EXCEPT ![t] = <<>>]]

CreateTableIn(db, t) ==
    [db EXCEPT !.exists = @ \cup {t}]

\* load_dataframe + dataframe_to_records: pandas reads an all-digit column as
\* integers, every other column comes back as it was written.
ReadCsv(t, recs) ==
    IF t = "users"
    THEN [i \in DOMAIN recs |->
            [recs[i] EXCEPT !.phone_number = DigitsValue(@)]]
    ELSE recs

Records(t) == ReadCsv(t, files[t])

\* Mutant of CommitAfterTable: conn.commit() sits inside the loop.
CommitAfterEveryTable(i) == TRUE

\* insert_data commits once, after the loop over LOAD_SEQUENCE.
CommitAfterTable(i) == i = Len(LOAD_SEQUENCE)

\* Mutant of StoreAfterClose: the pending transaction is committed on the
\* way out.
StoreAfterCloseCommits(committed, pending) == pending

\* conn.close() with a transaction open: the transaction is rolled back.
StoreAfterClose(committed, pending) == committed

Snapshot ==
    [valid |-> TRUE, dataDir |-> dataDir, present |-> present,
     files |-> files, store |-> store, lerr |-> lerr]

AtStep(name) ==
    /\ lpc = "run"
    /\ lstep <= Len(MainSteps)
    /\ MainSteps[lstep] = name

\* The running statement of main() returns: the next one runs, or the try
\* block is left for its finally clause.
Advance ==
    /\ lsub' = 1
    /\ lrow' = 0
    /\ IF lstep < Len(MainSteps)
       THEN /\ lstep' = lstep + 1
            /\ lpc' = "run"
       ELSE /\ lstep' = lstep
            /\ lpc' = "finally"

\* The running statement raises: the finally clause closes the connection
\* if one was opened, and the run ends with the error.
Raise(kind, table) ==
    /\ lerr' = kind
    /\ failedTable' = table
    /\ lpc' = IF conn = "open" THEN "finally" ELSE "exit"
    /\ UNCHANGED <<lstep, lsub, lrow>>

\* python ingest_to_sqlite.py is started (the generator is not running).
LoadStart ==
    /\ lpc = "idle"
    /\ gpc \in {"done", "error"}
    /\ lpc' = "run"
    /\ lstep' = 1
    /\ lsub' = 1
    /\ lrow' = 0
    /\ lerr' = "none"
    /\ failedTable' = "none"
    /\ opened' = FALSE
    /\ UNCHANGED <<genVars, diskVars, conn, fkOn, inTxn, work, store, prev>>

EnsureDataDir ==
    /\ AtStep("ensure_data_dir")
    /\ IF dataDir
       THEN Advance /\ UNCHANGED <<lerr, failedTable>>
       ELSE Raise("dir", "none")
    /\ UNCHANGED <<genVars, diskVars, conn, fkOn, inTxn, work, store, opened,
                   prev>>

GetConnection ==
    /\ AtStep("get_connection")
    /\ conn' = "open"
    /\ opened' = TRUE
    /\ fkOn' = ForeignKeysOn
    /\ inTxn' = FALSE
    /\ work' = store
    /\ Advance
    /\ UNCHANGED <<genVars, diskVars, store, lerr, failedTable, prev>>

\* One DROP TABLE IF EXISTS of drop_tables, and after the last its commit.
\* Outside a transaction a DDL statement is committed as it runs.
DropTable ==
    /\ AtStep("drop_tables")
    /\ LET t == DROP_ORDER[lsub]
           last == lsub = Len(DROP_ORDER)
       IN  IF DropRefused(work, fkOn, t)
           THEN /\ Raise("sql", t)
                /\ UNCHANGED <<work, store, inTxn>>
           ELSE /\ work' = DropTableFrom(work, t)
                /\ store' = IF inTxn /\ ~last THEN store ELSE work'
                /\ inTxn' = (inTxn /\ ~last)
                /\ UNCHANGED <<lerr, failedTable>>
                /\ IF last THEN Advance
                   ELSE /\ lsub' = lsub + 1
                        /\ UNCHANGED <<lpc, lstep, lrow>>
    /\ UNCHANGED <<genVars, diskVars, conn, fkOn, opened, prev>>

\* One CREATE TABLE of create_tables, and after the last its commit.
CreateTable ==
    /\ AtStep("create_tables")
    /\ LET t == CREATE_ORDER[lsub]
           last == lsub = Len(CREATE_ORDER)
       IN  IF t \in work.exists
           THEN /\ Raise("sql", t)
                /\ UNCHANGED <<work, store, inTxn>>
           ELSE /\ work' = CreateTableIn(work, t)
                /\ store' = IF inTxn /\ ~last THEN store ELSE work'
                /\ inTxn' = (inTxn /\ ~last)
                /\ UNCHANGED <<lerr, failedTable>>
                /\ IF last THEN Advance
                   ELSE /\ lsub' = lsub + 1
                        /\ UNCHANGED <<lpc, lstep, lrow>>
    /\ UNCHANGED <<genVars, diskVars, conn, fkOn, opened, prev>>

\* load_dataframe(csv_path) for the next table of LOAD_SEQUENCE.
LoadCsv ==
    /\ AtStep("insert_data")
    /\ lrow = 0
    /\ IF LOAD_SEQUENCE[lsub] \in present
       THEN /\ lrow' = 1
            /\ UNCHANGED <<lpc, lstep, lsub, lerr, failedTable>>
       ELSE Raise("file", LOAD_SEQUENCE[lsub])
    /\ UNCHANGED <<genVars, diskVars, conn, fkOn, inTxn, work, store, opened,
                   prev>>

\* One INSERT of executemany.  The first INSERT of a run opens a transaction;
\* a refused row raises and leaves the rows inserted before it pending.
InsertRow ==
    /\ AtStep("insert_data")
    /\ lrow >= 1
    /\ lrow <= Len(Records(LOAD_SEQUENCE[lsub]))
    /\ LET t == LOAD_SEQUENCE[lsub]
           r == Records(t)[lrow]
       IN  IF RowAccepted(work, fkOn, t, r)
           THEN /\ work' = InsertRowInto(work, t, r)
                /\ lrow' = lrow + 1
                /\ UNCHANGED <<lpc, lstep, lsub, lerr, failedTable>>
           ELSE /\ Raise(IF t \in work.exists THEN "constraint" ELSE "sql", t)
                /\ UNCHANGED work
    /\ inTxn' = TRUE
    /\ UNCHANGED <<genVars, diskVars, conn, fkOn, store, opened, prev>>

\* executemany returns ("Inserted n rows"): the next table, or after the
\* last table conn.commit().
TableDone ==
    /\ AtStep("insert_data")
    /\ lrow = Len(Records(LOAD_SEQUENCE[lsub])) + 1
    /\ IF CommitAfterTable(lsub)
       THEN /\ store' = work
            /\ inTxn' = FALSE
       ELSE UNCHANGED <<store, inTxn>>
    /\ IF lsub = Len(LOAD_SEQUENCE) THEN Advance
       ELSE /\ lsub' = lsub + 1
            /\ lrow' = 0
            /\ UNCHANGED <<lpc, lstep>>
    /\ UNCHANGED <<genVars, diskVars, conn, fkOn, work, lerr, failedTable,
                   opened, prev>>

\* finally: conn.close()
CloseConnection ==
    /\ lpc = "finally"
    /\ conn' = "closed"
    /\ store' = StoreAfterClose(store, work)
    /\ work' = store'
    /\ inTxn' = FALSE
    /\ lpc' = "exit"
    /\ UNCHANGED <<genVars, diskVars, lstep, lsub, lrow, fkOn, lerr,
                   failedTable, opened, prev>>

\* The process ends; what it leaves behind is remembered in prev.
LoadExit ==
    /\ lpc = "exit"
    /\ lpc' = "idle"
    /\ prev' = Snapshot
    /\ UNCHANGED <<genVars, diskVars, lstep, lsub, lrow, conn, fkOn, inTxn,
                   work, store, lerr, failedTable, opened>>

LoadNext ==
    \/ LoadStart
    \/ EnsureDataDir
    \/ GetConnection
    \/ DropTable
    \/ CreateTable
    \/ LoadCsv
    \/ InsertRow
    \/ TableDone
    \/ CloseConnection
    \/ LoadExit

\* ------------------------------------------------------- specifications
NoFiles == [t \in Tables |-> <<>>]

LoadInit ==
    /\ lpc = "idle"
    /\ lstep = 1
    /\ lsub = 1
    /\ lrow = 0
    /\ conn = "closed"
    /\ fkOn = FALSE
    /\ inTxn = FALSE
    /\ work = EmptyDb
    /\ store = EmptyDb
    /\ lerr = "none"
    /\ failedTable = "none"
    /\ opened = FALSE
    /\ prev = [valid |-> FALSE, dataDir |-> FALSE, present |-> {},
               files |-> NoFiles, store |-> EmptyDb, lerr |-> "none"]

\* The pipeline: the generator is run once, on any --rows of 0..MaxRows, and
\* the loader any number of times after it.
Init ==
    /\ rows \in 0..MaxRows
    /\ gpc = "start"
    /\ users = <<>>
    /\ products = <<>>
    /\ orders = <<>>
    /\ items = <<>>
    /\ order_totals = <<>>
    /\ selected = <<>>
    /\ oidx = 0
    /\ payments = <<>>
    /\ dataDir = FALSE
    /\ present = {}
    /\ files = NoFiles
    /\ edits = 0
    /\ LoadInit

Next == GenNext \/ LoadNext

Spec == Init /\ [][Next]_vars

\* The generator alone.
SpecGen == Init /\ [][GenNext]_vars

\* ------------------------------------------- the loader on edited files
\* A small dataset as the generator writes it: one row per table, every
\* draw at its lowest quantile.
BaseUser ==
    [user_id |-> 1, email |-> EmailOf(0), signup_date |-> SignupDate(0),
     phone_number |-> PhoneOf(0)]

BaseProduct ==
    [product_id |-> 1, category |-> Choice(CATEGORIES, 0),
     price |-> BasePrice(0), stock_quantity |-> StockQuantity(0)]

BaseItem ==
    [item_id |-> 1, order_id |-> 1, product_id |-> 1, quantity |-> 1,
     unit_price |-> UnitPrice(BasePrice(0), 0),
     line_total |-> LineTotal(1, UnitPrice(BasePrice(0), 0))]

BaseOrder ==
    [order_id |-> 1, user_id |-> 1,
     order_date |-> OrderDate(BaseUser.signup_date, 0),
     total_amount |-> BaseItem.line_total,
     order_status |-> Choices(ORDER_STATUSES, ORDER_STATUS_CUM, 0)]

BasePayment ==
    [payment_id |-> 1, order_id |-> 1,
     payment_method |-> Choice(PAYMENT_METHODS, 0),
     payment_status |-> Choices(PAYMENT_STATUSES, PAYMENT_STATUS_CUM, 0),
     payment_date |-> PaymentDate(BaseOrder.order_date, 0),
     amount_paid |-> FlooredAmount(
         AmountPaid("successful", BaseOrder.total_amount, 0))]

BaseFiles ==
    [t \in Tables |->
        CASE t = "users" -> <<BaseUser>>
          [] t = "products" -> <<BaseProduct>>
          [] t = "orders" -> <<BaseOrder>>
          [] t = "order_items" -> <<BaseItem>>
          [] t = "payments" -> <<BasePayment>>]

\* The rows a hand edit may write into a file of the data directory: rows
\* that keep the schema's constraints and rows that break one of them.
EditedRows(t) ==
    CASE t = "users" ->
            {[BaseUser EXCEPT !.user_id = 2, !.email = EmailOf(1),
                              !.phone_number = PhoneOf(1)],
             [BaseUser EXCEPT !.email = EmailOf(1),
                              !.phone_number = PhoneOf(1)],
             [BaseUser EXCEPT !.user_id = 2, !.phone_number = PhoneOf(1)],
             [BaseUser EXCEPT !.user_id = 2, !.email = EmailOf(1),
                              !.phone_number = <<0>>]}
      [] t = "products" ->
            {[BaseProduct EXCEPT !.product_id = 2],
             [BaseProduct EXCEPT !.product_id = 2, !.price = 0],
             [BaseProduct EXCEPT !.product_id = 2, !.category = "toys"]}
      [] t = "orders" ->
            {[BaseOrder EXCEPT !.order_id = 2],
             [BaseOrder EXCEPT !.order_id = 2, !.user_id = 2],
             [BaseOrder EXCEPT !.order_id = 2, !.total_amount = 0]}
      [] t = "order_items" ->
            {[BaseItem EXCEPT !.item_id = 2],
             [BaseItem EXCEPT !.item_id = 2, !.order_id = 2],
             [BaseItem EXCEPT !.item_id = 2, !.quantity = 0]}
      [] t = "payments" ->
            {[BasePayment EXCEPT !.payment_id = 2, !.order_id = 2],
             [BasePayment EXCEPT !.payment_id = 2, !.amount_paid = 0],
             BasePayment}

\* A hand edit of a CSV file between two runs: row i is overwritten, or a
\* row is added at the end.
EditRow ==
    /\ lpc = "idle"
    /\ edits < MaxEdits
    /\ \E t \in present : \E i \in 1..(Len(files[t]) + 1) :
       \E r \in EditedRows(t) :
        files' = [files EXCEPT ![t] =
                    IF i <= Len(@) THEN [@ EXCEPT ![i] = r] ELSE Append(@, r)]
    /\ edits' = edits + 1
    /\ UNCHANGED <<genVars, dataDir, present, loadVars>>

\* A CSV file is deleted between two runs.
DeleteFile ==
    /\ lpc = "idle"
    /\ edits < MaxEdits
    /\ \E t \in present :
        /\ present' = present \ {t}
        /\ files' = [files EXCEPT ![t] = <<>>]
    /\ edits' = edits + 1
    /\ UNCHANGED <<genVars, dataDir, loadVars>>

\* The data directory is removed between two runs.
RemoveDataDir ==
    /\ lpc = "idle"
    /\ edits < MaxEdits
    /\ dataDir
    /\ dataDir' = FALSE
    /\ present' = {}
    /\ files' = NoFiles
    /\ edits' = edits + 1
    /\ UNCHANGED <<genVars, loadVars>>

EditNext ==
    \/ EditRow
    \/ DeleteFile
    \/ RemoveDataDir

\* The generator has run and is at rest; the data directory holds the base
\* dataset and the database file does not exist yet.
InitLoad ==
    /\ rows = 1
    /\ gpc = "done"
    /\ users = BaseFiles["users"]
    /\ products = BaseFiles["products"]
    /\ orders = BaseFiles["orders"]
    /\ items = BaseFiles["order_items"]
    /\ order_totals = [o \in {1} |-> BaseItem.line_total]
    /\ selected = <<>>
    /\ oidx = 0
    /\ payments = BaseFiles["payments"]
    /\ dataDir = TRUE
    /\ present = Tables
    /\ files = BaseFiles
    /\ edits = 0
    /\ LoadInit

NextLoad == LoadNext \/ EditNext

\* The loader, run any number of times, with hand edits between the runs.
SpecLoad == InitLoad /\ [][NextLoad]_vars

\* ------------------------------------------------------------ properties
\* The position of the generator among the stages of main(): 0 before the
\* first stage (or after an error), Len(GenStages) + 1 once main() is done.
StageIndex ==
    LET at == IF gpc = "item" THEN "items" ELSE gpc
    IN  IF at = "done" THEN Len(GenStages) + 1
        ELSE IF at \in Range(GenStages)
        THEN CHOOSE k \in 1..Len(GenStages) : GenStages[k] = at
        ELSE 0

\* The generator has completed the given stage.
GenPast(stage) ==
    StageIndex > CHOOSE k \in 1..Len(GenStages) : GenStages[k] = stage

\* The indices of the items of order o.
ItemsOf(o) == {k \in DOMAIN items : items[k].order_id = o.order_id}

LineTotals == [k \in DOMAIN items |-> items[k].line_total]

OrderOf(p) == CHOOSE i \in DOMAIN orders : orders[i].order_id = p.order_id

\* C2: a successful payment pays exactly the total of its order; any other
\* payment pays an amount of [1.00, max(total, 1.00)]; every payment pays at
\* least 0.01.
C2_AmountPaid ==
    \A k \in DOMAIN payments :
        LET p == payments[k]
            total == orders[OrderOf(p)].total_amount
        IN  /\ p.payment_status = "successful" => p.amount_paid = total
            /\ p.payment_status # "successful" =>
                    /\ p.amount_paid >= 100
                    /\ p.amount_paid <= Max(total, 100)
            /\ p.amount_paid >= MinPaid

\* A payment that is not successful pays the least partial amount, 1.00.
C2_Witness ==
    \E k \in DOMAIN payments :
        /\ payments[k].payment_status # "successful"
        /\ payments[k].amount_paid = 100
        /\ payments[k].amount_paid < orders[OrderOf(payments[k])].total_amount

\* Every order there is to be has been generated with all of its items.
ItemsComplete ==
    /\ Len(orders) = rows
    /\ gpc \notin {"items", "item"}
    /\ \A i \in DOMAIN orders : ItemsOf(orders[i]) # {}

\* C3: no order total is finalized before the items of all orders are
\* generated, and no payment is generated before every order total is
\* finalized: while payments exist no order holds the placeholder 0.0.
C3_StagesOrdered ==
    /\ (\E i \in DOMAIN orders : orders[i].total_amount # Placeholder)
            => ItemsComplete
    /\ payments # <<>> =>
            /\ GenPast("totals")
            /\ \A i \in DOMAIN orders : orders[i].total_amount # Placeholder

\* The payments of all orders have been generated.
C3_Witness ==
    /\ rows > 0
    /\ Len(payments) = rows
    /\ GenPast("payments")

RowKeepsSchema(t, i) ==
    LET recs == Records(t)
    IN  /\ Checks(t, recs[i])
        /\ \A j \in 1..(i - 1) :
              /\ recs[j][PrimaryKey[t]] # recs[i][PrimaryKey[t]]
              /\ \A c \in UniqueColumns[t] : recs[j][c] # recs[i][c]
        /\ \A k \in ForeignKeys[t] :
              \E j \in DOMAIN Records(k[2]) :
                  Records(k[2])[j][k[3]] = recs[i][k[1]]

\* The tables whose file holds a row that breaks a constraint.
ViolatingTables ==
    {t \in Tables : \E i \in DOMAIN files[t] : ~RowKeepsSchema(t, i)}

\* The committed store holds every table and each table the rows of its file.
StoreHoldsFiles ==
    /\ store.exists = Tables
    /\ \A t \in Tables : Len(store.rows[t]) = Len(files[t])

StoreEmptied ==
    /\ store.exists = Tables
    /\ \A t \in Tables : store.rows[t] = <<>>

\* C5: when a row of a source file breaks a constraint of its table, the
\* run that read the files ends with an error, and the store holds no row of
\* that table: neither the violating row nor the rows before it.
C5_ViolationEmptiesTable ==
    (lpc = "exit" /\ opened /\ ViolatingTables # {}) =>
        /\ lerr # "none"
        /\ \A t \in ViolatingTables :
              /\ t \in store.exists
              /\ store.rows[t] = <<>>

\* A run has failed on the second row of products, the first having been
\* inserted.
C5_Witness ==
    /\ lpc = "exit"
    /\ lerr = "constraint"
    /\ failedTable = "products"
    /\ lrow = 2
    /\ "products" \in ViolatingTables

\* C6: a run over the same data directory as the run before it leaves the
\* same store and ends the same way.
C6_Idempotent ==
    (/\ lpc = "exit"
     /\ prev.valid
     /\ prev.dataDir = dataDir
     /\ prev.present = present
     /\ prev.files = files) =>
        /\ store = prev.store
        /\ lerr = prev.lerr

\* A second successful run over unchanged files is over.
C6_Witness ==
    /\ lpc = "exit"
    /\ prev.valid
    /\ prev.dataDir = dataDir
    /\ prev.present = present
    /\ prev.files = files
    /\ lerr = "none"
    /\ store.rows["payments"] # <<>>

\* C7: a run started without the data directory ends with the error of
\* ensure_data_dir, has opened no connection and leaves the store as it was.
C7_MissingDirNoMutation ==
    (lpc = "exit" /\ ~dataDir) =>
        /\ lerr = "dir"
        /\ ~opened
        /\ conn = "closed"
        /\ store = prev.store

\* A run without data directory is over, on a store that holds rows.
C7_Witness ==
    /\ lpc = "exit"
    /\ lerr = "dir"
    /\ store.rows["users"] # <<>>

\* No row of db references a parent row that db does not hold.
NoOrphans(db) ==
    \A t \in Tables : \A k \in ForeignKeys[t] : \A i \in DOMAIN db.rows[t] :
        ParentPresent(db, db.rows[t][i], k)

\* A table exists in db only together with the tables it references.
ParentsExist(db) ==
    \A t \in db.exists : \A k \in ForeignKeys[t] : k[2] \in db.exists

\* The position of table t in the sequence seq.
PosIn(seq, t) == CHOOSE i \in DOMAIN seq : seq[i] = t

\* C9: parents are loaded before children and dropped after them, the drop
\* order being the load order reversed: at every
\* step neither the connection's view nor the committed store holds a row
\* whose parent row is absent, or a table without the tables it references,
\* and a table has rows pending only when every table it references is
\* loaded.
C9_DependencyOrder ==
    /\ NoOrphans(work)
    /\ NoOrphans(store)
    /\ ParentsExist(work)
    /\ ParentsExist(store)
    /\ \A i \in DOMAIN DROP_ORDER :
          DROP_ORDER[i] = LOAD_SEQUENCE[Len(LOAD_SEQUENCE) + 1 - i]
    /\ \A t \in Tables : \A k \in ForeignKeys[t] :
          /\ PosIn(LOAD_SEQUENCE, k[2]) < PosIn(LOAD_SEQUENCE, t)
          /\ PosIn(DROP_ORDER, k[2]) > PosIn(DROP_ORDER, t)
          /\ (AtStep("insert_data") /\ inTxn /\ work.rows[t] # <<>>)
                => PosIn(LOAD_SEQUENCE, k[2]) < lsub

\* An insert of a row whose parent row is absent has been refused.
C9_Witness ==
    /\ lpc = "finally"
    /\ lerr = "constraint"
    /\ \E k \in ForeignKeys[failedTable] :
          ~ParentPresent(work, Records(failedTable)[lrow], k)

\* C10: while rows are being inserted the committed store holds all five
\* tables, empty; a run whose insert fails (a refused row, a missing file)
\* ends with that store: the rows of earlier tables are not kept and the
\* rows held before the run are gone.
C10_FailedInsertLeavesEmptyTables ==
    /\ AtStep("insert_data") => StoreEmptied
    /\ (lpc = "exit" /\ lerr \in {"constraint", "file"}) => StoreEmptied

\* A run over a store that held rows has failed after inserting the rows of
\* an earlier table.
C10_Witness ==
    /\ lpc = "exit"
    /\ lerr \in {"constraint", "file"}
    /\ failedTable \notin {"none", "users"}
    /\ prev.valid
    /\ prev.store.rows["users"] # <<>>

====
